---- MODULE Spec2Model ----
(***************************************************************************)
(* Model of app.py, a Streamlit chat assistant.  One Streamlit session is  *)
(* modelled: st.session_state persists between script runs, every widget   *)
(* interaction reruns main() from the top, and main() is followed          *)
(* statement by statement through the program counter pc.                  *)
(*                                                                         *)
(* Text is a sequence of tokens (strings); the concatenation of f-strings  *)
(* is \o.  A user utterance is a sequence of characters.  A Python value   *)
(* that can end up as a message content is a record [type, text].          *)
(***************************************************************************)
EXTENDS Integers, Sequences, FiniteSets, TLC

\* ------------------------------------------------------------------ bounds

\* Exchanges (non-empty inputs) one session processes.
MaxExchanges == 2
\* Exchanges of a session in which the endpoint shows all of HttpOutcomes.
MaxGatewayExchanges == 1
\* Wall-clock readings are 0..MaxClock, in units of half a millisecond.
MaxClock == 2

\* ------------------------------------------------------- python values

PyStr(t) == [type |-> "str", text |-> t]
PyNone == [type |-> "NoneType", text |-> <<>>]
\* A local name that is not bound yet.
Unbound == [type |-> "unbound", text |-> <<>>]

\* The outcome of a call: a returned value or a raised exception with str(e).
Return(v) == [raised |-> FALSE, exc |-> "", msg |-> "", value |-> v]
Raise(e, m) == [raised |-> TRUE, exc |-> e, msg |-> m, value |-> <<>>]

\* bool(s) of a str: non-empty.
Truthy(s) == Len(s) > 0

IsSpace(tok) == tok \in {" ", "\n", "\n\n"}

\* str.strip(): leading and trailing whitespace removed.
RECURSIVE LStrip(_)
LStrip(s) == IF s # <<>> /\ IsSpace(Head(s)) THEN LStrip(Tail(s)) ELSE s

RECURSIVE RStrip(_)
RStrip(s) ==
    IF s # <<>> /\ IsSpace(s[Len(s)]) THEN RStrip(SubSeq(s, 1, Len(s) - 1)) ELSE s

Strip(s) == RStrip(LStrip(s))

\* ------------------------------------------------------ context sources

\* prompt.txt: absent, or its text.
PromptFiles ==
    << [exists |-> FALSE, text |-> <<>>],
       [exists |-> TRUE, text |-> <<"Eres un asistente.">>] >>

\* knowledge.json: absent, not JSON, or a JSON object (its key/value pairs in
\* document order, values already in their JSON spelling).
KnowledgeFiles ==
    << [exists |-> FALSE, valid |-> FALSE, pairs |-> <<>>],
       [exists |-> TRUE, valid |-> FALSE, pairs |-> <<>>],
       [exists |-> TRUE, valid |-> TRUE,
        pairs |-> << <<"experience_years", "5">> >>] >>

\* CV.pdf: absent, or its pages, each with the text extract_text() gives
\* (<<>> for a page without text).
CvFiles ==
    << [exists |-> FALSE, pages |-> <<>>],
       [exists |-> TRUE, pages |-> << <<"Worked at Acme Corp.">>, <<>> >>] >>

load_prompt(f) ==
    IF f.exists THEN Return(f.text)
    ELSE Raise("FileNotFoundError", "No such file or directory: 'prompt.txt'")

\* Mutant: an unreadable knowledge.json counts as an empty object.
load_knowledge_DefaultsEmpty(f) ==
    IF f.exists /\ f.valid THEN Return(f.pairs) ELSE Return(<<>>)

load_knowledge(f) ==
    IF ~f.exists
    THEN Raise("FileNotFoundError", "No such file or directory: 'knowledge.json'")
    ELSE IF ~f.valid THEN Raise("JSONDecodeError", "Expecting value")
    ELSE Return(f.pairs)

\* The loop over pdf.pages: a page's text and a newline are added when the
\* page has text.
RECURSIVE CvPagesText(_)
CvPagesText(pages) ==
    IF pages = <<>> THEN <<>>
    ELSE (IF Truthy(Head(pages)) THEN Head(pages) \o <<"\n">> ELSE <<>>)
         \o CvPagesText(Tail(pages))

\* Mutant: a missing CV.pdf gives a placeholder text.
load_cv_Placeholder(f) ==
    IF f.exists THEN Strip(CvPagesText(f.pages)) ELSE <<"CV no disponible">>

load_cv(f) == IF f.exists THEN Strip(CvPagesText(f.pages)) ELSE <<>>

\* json.dumps(knowledge, indent=2, ensure_ascii=False) of a flat object.
RECURSIVE DumpsItems(_)
DumpsItems(pairs) ==
    IF pairs = <<>> THEN <<>>
    ELSE <<"\n  ", "\"", Head(pairs)[1], "\"", ": ", Head(pairs)[2]>>
         \o (IF Len(pairs) > 1 THEN <<",">> ELSE <<>>)
         \o DumpsItems(Tail(pairs))

json_dumps(pairs) ==
    IF pairs = <<>> THEN <<"{}">> ELSE <<"{">> \o DumpsItems(pairs) \o <<"\n", "}">>

\* --------------------------------------------------------- the messages

Msg(r, c) == [role |-> r, content |-> c]

ClosingInstruction ==
    "Usa esta informacion para responder de manera precisa, clara y profesional."

SystemContent(base_prompt_, knowledge_, cv_text_) ==
    base_prompt_ \o <<"\n\n", "Informacion de knowledge.json:\n">>
    \o json_dumps(knowledge_) \o <<"\n\n", "Extracto de CV:\n">>
    \o cv_text_ \o <<"\n\n", ClosingInstruction>>

system_message(base_prompt_, knowledge_, cv_text_) ==
    Msg("system", PyStr(SystemContent(base_prompt_, knowledge_, cv_text_)))

\* Mutant: the new user message is put before the history.
BuildMessages_UserBeforeHistory(sysmsg, history, input) ==
    <<sysmsg, Msg("user", PyStr(input))>> \o history

\* messages = [system_message] + chat_history; messages.append(user turn)
BuildMessages(sysmsg, history, input) ==
    (<<sysmsg>> \o history) \o <<Msg("user", PyStr(input))>>

\* -------------------------------------------------- completion endpoint

\* A value of a parsed JSON document.
JStr(t) == [t |-> "str", keys |-> <<>>, vals |-> <<>>, text |-> t]
JNull == [t |-> "null", keys |-> <<>>, vals |-> <<>>, text |-> <<>>]
JObj(k, v) == [t |-> "dict", keys |-> k, vals |-> v, text |-> <<>>]
JList(v) == [t |-> "list", keys |-> <<>>, vals |-> v, text |-> <<>>]

\* The Python value a parsed JSON value is (containers keep only their type).
ToPy(j) ==
    IF j.t = "str" THEN PyStr(j.text)
    ELSE IF j.t = "null" THEN PyNone
    ELSE [type |-> j.t, text |-> <<>>]

\* v[k] for a str key k.
GetKey(v, k) ==
    IF v.t = "dict"
    THEN IF \E i \in 1..Len(v.keys) : v.keys[i] = k
         THEN Return(v.vals[CHOOSE i \in 1..Len(v.keys) : v.keys[i] = k])
         ELSE Raise("KeyError", k)
    ELSE IF v.t = "list"
    THEN Raise("TypeError", "list indices must be integers or slices, not str")
    ELSE IF v.t = "str"
    THEN Raise("TypeError", "string indices must be integers")
    ELSE Raise("TypeError", "'NoneType' object is not subscriptable")

\* v[0].
GetFirst(v) ==
    IF v.t = "list"
    THEN IF Len(v.vals) > 0 THEN Return(v.vals[1])
         ELSE Raise("IndexError", "list index out of range")
    ELSE IF v.t = "dict" THEN Raise("KeyError", "0")
    ELSE IF v.t = "str"
    THEN IF Len(v.text) > 0 THEN Return(JStr(<<Head(v.text)>>))
         ELSE Raise("IndexError", "string index out of range")
    ELSE Raise("TypeError", "'NoneType' object is not subscriptable")

Choice(c) == JObj(<<"message">>, <<JObj(<<"content">>, <<c>>)>>)
Body(choices) == JObj(<<"choices">>, <<choices>>)

ReplyText == <<"5 years, most recently at Acme Corp.">>
OtherReplyText == <<"Second choice.">>
GoodBody == Body(JList(<<Choice(JStr(ReplyText)), Choice(JStr(OtherReplyText))>>))

Response(st, j, b) ==
    [kind |-> "response", msg |-> "", status |-> st, is_json |-> j, body |-> b]
Failed(k, m) ==
    [kind |-> k, msg |-> m, status |-> 0, is_json |-> FALSE, body |-> JNull]

\* What requests.post(..., timeout=60) can come back with.
HttpOutcomes ==
    << Failed("ConnectionError", "Connection refused"),
       Failed("ReadTimeout", "Read timed out. (read timeout=60)"),
       Response(500, FALSE, JNull),
       Response(200, FALSE, JNull),
       Response(200, TRUE, JObj(<<>>, <<>>)),
       Response(200, TRUE, Body(JList(<<>>))),
       Response(200, TRUE, Body(JList(<<JObj(<<>>, <<>>)>>))),
       Response(200, TRUE, Body(JList(<<JObj(<<"message">>, <<JObj(<<>>, <<>>)>>)>>))),
       Response(200, TRUE, Body(JList(<<Choice(JNull)>>))),
       Response(200, TRUE, GoodBody),
       Response(300, TRUE, GoodBody) >>

\* response.raise_for_status(): an HTTPError for a 4xx or 5xx status.
raise_for_status(http) ==
    IF 400 <= http.status /\ http.status < 600
    THEN Raise("HTTPError", "Server Error")
    ELSE Return(http)

\* response.json()
response_json(http) ==
    IF http.is_json THEN Return(http.body)
    ELSE Raise("JSONDecodeError", "Expecting value: line 1 column 1 (char 0)")

\* response.json()["choices"][0]["message"]["content"]: each subscript is
\* evaluated unless the one before it raised.
ExtractContent(body) ==
    LET c == GetKey(body, "choices") IN
    IF c.raised THEN c ELSE
    LET f == GetFirst(c.value) IN
    IF f.raised THEN f ELSE
    LET m == GetKey(f.value, "message") IN
    IF m.raised THEN m ELSE GetKey(m.value, "content")

\* call_llm_api(messages), given what the single POST comes back with.
call_llm_api(http) ==
    IF http.kind # "response" THEN Raise(http.kind, http.msg) ELSE
    LET s == raise_for_status(http) IN
    IF s.raised THEN s ELSE
    LET b == response_json(http) IN
    IF b.raised THEN b ELSE
    LET c == ExtractContent(b.value) IN
    IF c.raised THEN c ELSE Return(ToPy(c.value))

AllOutcomes == 1..Len(HttpOutcomes)

\* A transport failure, a 5xx status, a null content and a good reply.
CoreOutcomes == {1, 3, 9, 10}

ErrorPrefix == "Error consultando el modelo: "

\* Mutant: the reply on failure is the bare exception text.
AssistantReply_NoPrefix(r) == IF r.raised THEN PyStr(<<r.msg>>) ELSE r.value

\* The try/except around call_llm_api in main.
AssistantReply(r) ==
    IF r.raised THEN PyStr(<<ErrorPrefix, r.msg>>) ELSE r.value

\* ------------------------------------------------------------ the logger

\* GOOGLE_CREDENTIALS_JSON and the spreadsheet service, as one call of
\* log_interaction finds them.
LogEnvs ==
    [creds : {"missing", "not_json", "unusable"}, store : {"ok"}]
    \cup [creds : {"ok"},
          store : {"unreachable", "no_spreadsheet", "no_worksheet",
                   "append_fails", "ok"}]

\* Whether the call gets as far as building the row, which reads the clock.
BuildsRow(env) == env.creds = "ok" /\ env.store \in {"append_fails", "ok"}

\* get_gsheets_client(): the client (TRUE) or None, and what st.error showed.
get_gsheets_client(env) ==
    IF env.creds = "missing"
    THEN [client |-> FALSE,
          errors |-> <<"No se encontro GOOGLE_CREDENTIALS_JSON en los secrets">>]
    ELSE IF env.creds \in {"not_json", "unusable"}
    THEN [client |-> FALSE, errors |-> <<"Error conectando con Google Sheets">>]
    ELSE [client |-> TRUE, errors |-> <<>>]

\* datetime.isoformat() of a clock reading.
Isoformat(t) == <<"isoformat", t>>

\* Mutant: the client identifier and the session id change places.
LogRow_AgentBeforeSession(ts, sid, input, reply, dur, agent) ==
    <<Isoformat(ts), agent, input, reply, dur, sid>>

LogRow(ts, sid, input, reply, dur, agent) ==
    <<Isoformat(ts), sid, input, reply, dur, agent>>

\* What the body of log_interaction's try block did: whether it raised, the
\* append_row calls it made and the rows the sheet took.
NoAttempt(r, e) == [raised |-> r, errors |-> e, attempts |-> 0, rows |-> <<>>]

\* Mutant: a failed append_row is tried once more.
LogBody_RetryAppend(env, rowv) ==
    LET c == get_gsheets_client(env) IN
    IF ~c.client THEN NoAttempt(FALSE, c.errors)
    ELSE IF env.store \in {"unreachable", "no_spreadsheet", "no_worksheet"}
    THEN NoAttempt(TRUE, <<>>)
    ELSE IF env.store = "append_fails"
    THEN [raised |-> TRUE, errors |-> <<>>, attempts |-> 2, rows |-> <<>>]
    ELSE [raised |-> FALSE, errors |-> <<>>, attempts |-> 1, rows |-> <<rowv>>]

LogBody(env, rowv) ==
    LET c == get_gsheets_client(env) IN
    IF ~c.client THEN NoAttempt(FALSE, c.errors)
    ELSE IF env.store \in {"unreachable", "no_spreadsheet", "no_worksheet"}
    THEN NoAttempt(TRUE, <<>>)
    ELSE IF env.store = "append_fails"
    THEN [raised |-> TRUE, errors |-> <<>>, attempts |-> 1, rows |-> <<>>]
    ELSE [raised |-> FALSE, errors |-> <<>>, attempts |-> 1, rows |-> <<rowv>>]

\* except Exception as e: st.error(...)
LogExcept(b) ==
    IF b.raised
    THEN [b EXCEPT !.raised = FALSE,
                   !.errors = Append(@, "No se pudo registrar en Google Sheets")]
    ELSE b

\* Mutant: no try/except around the body.
log_interaction_NoExcept(env, rowv) == LogBody(env, rowv)

log_interaction(env, rowv) == LogExcept(LogBody(env, rowv))

\* ------------------------------------------------------------ the clock

\* Clock readings per millisecond.
TicksPerMs == 2

\* int(x): truncation toward zero.
TruncDiv(a, b) == IF a >= 0 THEN a \div b ELSE -((-a) \div b)

\* int((time.time() - start_time) * 1000)
DurationMs(start, stop) == TruncDiv(stop - start, TicksPerMs)

\* ------------------------------------------------------------- the state

VARIABLES
    pc,              \* where main() is; "Idle" between script runs
    ss_keys,         \* the keys st.session_state holds
    session_id,      \* st.session_state.session_id
    chat_history,    \* st.session_state.chat_history
    base_prompt, knowledge, cv_text,    \* main's locals: the context
    user_input, start_time, messages, assistant_reply, duration_ms, user_agent,
    uncaught,        \* the exception that ended this run of main(), or ""
    st_errors,       \* what st.error showed during this run
    sources,         \* which prompt, knowledge and CV files this run found
    hist0,           \* chat_history as this run of main() found it
    response,        \* which of HttpOutcomes this run's POST came back with
    posts,           \* POSTs sent during this run
    appends,         \* append_row calls made during this run
    row,             \* the rows the sheet took during this run
    handed,          \* the arguments of this run's log_interaction calls
    events,          \* the statements of an exchange this run has executed
    first_context    \* the context of the session's first exchange

locals == <<base_prompt, knowledge, cv_text, user_input, start_time, messages,
            assistant_reply, duration_ms, user_agent>>
session == <<ss_keys, session_id, chat_history>>
observed == <<uncaught, st_errors, sources, hist0, response, posts, appends,
              row, handed, events>>
vars == <<pc, session, locals, observed, first_context>>

\* uuid.uuid4()
UUIDs == {"uuid-a", "uuid-b"}

\* What st.text_input can hold when the script runs.
UserInputs == { <<>>, <<" ">>, <<"h", "i">> }

DefaultUserAgent == "streamlit-client"

Context == <<base_prompt, knowledge, cv_text>>

Init ==
    /\ pc = "Idle"
    /\ ss_keys = {} /\ session_id = "" /\ chat_history = <<>>
    /\ base_prompt = <<>> /\ knowledge = <<>> /\ cv_text = <<>>
    /\ user_input = <<>> /\ start_time = 0 /\ messages = <<>>
    /\ assistant_reply = Unbound /\ duration_ms = 0 /\ user_agent = ""
    /\ uncaught = "" /\ st_errors = <<>> /\ response = 0
    /\ posts = 0 /\ appends = 0 /\ row = <<>> /\ sources = <<0, 0, 0>>
    /\ hist0 = <<>> /\ handed = <<>> /\ events = <<>>
    /\ first_context = <<>>

\* ------------------------------------------------------------ main()

\* Mutant: the assistant turn is not stored.
AppendTurn_OnlyUser(history, r, c) ==
    IF r = "assistant" THEN history ELSE Append(history, Msg(r, c))

\* Mutant: the newest turn is put first.
AppendTurn_Prepend(history, r, c) == <<Msg(r, c)>> \o history

\* st.session_state.chat_history.append({"role": r, "content": c})
AppendTurn(history, r, c) == Append(history, Msg(r, c))

\* Mutant: every run of main() draws a new session id.
SessionInit_NewIdEveryRun ==
    /\ pc = "Idle"
    /\ \E u \in UUIDs : session_id' = u
    /\ chat_history' = IF "chat_history" \in ss_keys THEN chat_history ELSE <<>>
    /\ ss_keys' = ss_keys \cup {"session_id", "chat_history"}
    /\ hist0' = chat_history'
    /\ pc' = "Loading"
    /\ UNCHANGED <<locals, uncaught, st_errors, sources, response, posts,
                   appends, row, handed, events, first_context>>

\* if "session_id" not in st.session_state: ...
\* if "chat_history" not in st.session_state: ...
SessionInit ==
    /\ pc = "Idle"
    /\ \E u \in UUIDs :
         session_id' = IF "session_id" \in ss_keys THEN session_id ELSE u
    /\ chat_history' = IF "chat_history" \in ss_keys THEN chat_history ELSE <<>>
    /\ ss_keys' = ss_keys \cup {"session_id", "chat_history"}
    /\ hist0' = chat_history'
    /\ pc' = "Loading"
    /\ UNCHANGED <<locals, uncaught, st_errors, sources, response, posts,
                   appends, row, handed, events, first_context>>

\* base_prompt = load_prompt(); knowledge = load_knowledge(); cv_text = load_cv()
\* An exception of a loader ends the run.
LoadContext ==
    /\ pc = "Loading"
    /\ \E p \in 1..Len(PromptFiles), k \in 1..Len(KnowledgeFiles),
          c \in 1..Len(CvFiles) :
         LET rp == load_prompt(PromptFiles[p])
             rk == load_knowledge(KnowledgeFiles[k])
         IN  /\ sources' = <<p, k, c>>
             /\ IF rp.raised
                THEN /\ uncaught' = rp.exc
                     /\ pc' = "Aborted"
                     /\ UNCHANGED <<base_prompt, knowledge, cv_text>>
                ELSE IF rk.raised
                THEN /\ base_prompt' = rp.value
                     /\ uncaught' = rk.exc
                     /\ pc' = "Aborted"
                     /\ UNCHANGED <<knowledge, cv_text>>
                ELSE /\ base_prompt' = rp.value
                     /\ knowledge' = rk.value
                     /\ cv_text' = load_cv(CvFiles[c])
                     /\ pc' = "Input"
                     /\ UNCHANGED uncaught
    /\ UNCHANGED <<session, user_input, start_time, messages, assistant_reply,
                   duration_ms, user_agent, st_errors, hist0, response, posts,
                   appends, row, handed, events, first_context>>

\* user_input = st.text_input(...); if user_input: start_time = time.time()
ReadInput(limit) ==
    /\ pc = "Input"
    /\ \E inp \in UserInputs :
         /\ user_input' = inp
         /\ IF Truthy(inp)
            THEN /\ Len(chat_history) < 2 * limit
                 /\ \E t \in 0..MaxClock : start_time' = t
                 /\ events' = Append(events, "timer_started")
                 /\ pc' = "Assembling"
            ELSE /\ pc' = "Render"
                 /\ UNCHANGED <<start_time, events>>
    /\ UNCHANGED <<session, base_prompt, knowledge, cv_text, messages,
                   assistant_reply, duration_ms, user_agent, uncaught,
                   st_errors, sources, hist0, response, posts, appends, row,
                   handed, first_context>>

\* Mutant: messages is the history list itself, so that appending the user
\* message to it appends to the history.
Assemble_AliasesHistory ==
    /\ pc = "Assembling"
    /\ messages' = BuildMessages(system_message(base_prompt, knowledge, cv_text),
                                 chat_history, user_input)
    /\ chat_history' = Append(chat_history, Msg("user", PyStr(user_input)))
    /\ first_context' = IF first_context = <<>> THEN Context ELSE first_context
    /\ events' = Append(events, "assembled")
    /\ pc' = "AwaitingCompletion"
    /\ UNCHANGED <<ss_keys, session_id, base_prompt, knowledge, cv_text,
                   user_input, start_time, assistant_reply, duration_ms,
                   user_agent, uncaught, st_errors, sources, hist0, response,
                   posts, appends, row, handed>>

\* system_message = {...}; messages = [system_message] + history;
\* messages.append({"role": "user", "content": user_input})
Assemble ==
    /\ pc = "Assembling"
    /\ messages' = BuildMessages(system_message(base_prompt, knowledge, cv_text),
                                 chat_history, user_input)
    /\ first_context' = IF first_context = <<>> THEN Context ELSE first_context
    /\ events' = Append(events, "assembled")
    /\ pc' = "AwaitingCompletion"
    /\ UNCHANGED <<session, base_prompt, knowledge, cv_text, user_input,
                   start_time, assistant_reply, duration_ms, user_agent,
                   uncaught, st_errors, sources, hist0, response, posts,
                   appends, row, handed>>

\* Mutant: no except clause around call_llm_api; its exception ends the run.
Complete_NoExcept(outcomes) ==
    /\ pc = "AwaitingCompletion"
    /\ \E i \in outcomes :
         LET r == call_llm_api(HttpOutcomes[i])
         IN  /\ response' = i
             /\ IF r.raised
                THEN /\ uncaught' = r.exc
                     /\ pc' = "Aborted"
                     /\ UNCHANGED assistant_reply
                ELSE /\ assistant_reply' = r.value
                     /\ pc' = "Recording"
                     /\ UNCHANGED uncaught
    /\ posts' = posts + 1
    /\ events' = Append(events, "completed")
    /\ UNCHANGED <<session, base_prompt, knowledge, cv_text, user_input,
                   start_time, messages, duration_ms, user_agent, st_errors,
                   sources, hist0, appends, row, handed, first_context>>

\* try: assistant_reply = call_llm_api(messages)
\* except Exception as e: assistant_reply = f"Error consultando el modelo: {e}"
Complete(outcomes) ==
    /\ pc = "AwaitingCompletion"
    /\ \E i \in outcomes :
         /\ response' = i
         /\ assistant_reply' = AssistantReply(call_llm_api(HttpOutcomes[i]))
    /\ posts' = posts + 1
    /\ events' = Append(events, "completed")
    /\ pc' = "Recording"
    /\ UNCHANGED <<session, base_prompt, knowledge, cv_text, user_input,
                   start_time, messages, duration_ms, user_agent, uncaught,
                   st_errors, sources, hist0, appends, row, handed,
                   first_context>>

\* Mutant: the logger is called right after the timer stops, before the turns
\* are appended.
StopTimer_ThenLogger ==
    /\ pc = "Recording"
    /\ \E t \in 0..MaxClock : duration_ms' = DurationMs(start_time, t)
    /\ user_agent' = DefaultUserAgent
    /\ events' = Append(events, "timer_stopped")
    /\ pc' = "Logging"
    /\ UNCHANGED <<session, base_prompt, knowledge, cv_text, user_input,
                   start_time, messages, assistant_reply, uncaught, st_errors,
                   sources, hist0, response, posts, appends, row, handed,
                   first_context>>

\* duration_ms = int((time.time() - start_time) * 1000)
\* user_agent = st.session_state.get("user_agent", "streamlit-client")
StopTimer ==
    /\ pc = "Recording"
    /\ \E t \in 0..MaxClock : duration_ms' = DurationMs(start_time, t)
    /\ user_agent' = DefaultUserAgent
    /\ events' = Append(events, "timer_stopped")
    /\ pc' = "AppendUser"
    /\ UNCHANGED <<session, base_prompt, knowledge, cv_text, user_input,
                   start_time, messages, assistant_reply, uncaught, st_errors,
                   sources, hist0, response, posts, appends, row, handed,
                   first_context>>

\* st.session_state.chat_history.append({"role": "user", ...})
AppendUser ==
    /\ pc = "AppendUser"
    /\ chat_history' = AppendTurn(chat_history, "user", PyStr(user_input))
    /\ events' = Append(events, "user_appended")
    /\ pc' = "AppendAssistant"
    /\ UNCHANGED <<ss_keys, session_id, locals, uncaught, st_errors, sources,
                   hist0, response, posts, appends, row, handed, first_context>>

\* st.session_state.chat_history.append({"role": "assistant", ...})
AppendAssistant ==
    /\ pc = "AppendAssistant"
    /\ chat_history' = AppendTurn(chat_history, "assistant", assistant_reply)
    /\ events' = Append(events, "assistant_appended")
    /\ pc' = "Logging"
    /\ UNCHANGED <<ss_keys, session_id, locals, uncaught, st_errors, sources,
                   hist0, response, posts, appends, row, handed, first_context>>

\* log_interaction(user_input, assistant_reply, duration_ms, user_agent)
Log ==
    /\ pc = "Logging"
    /\ handed' = Append(handed, <<user_input, assistant_reply, duration_ms,
                                  user_agent>>)
    /\ events' = Append(events, "logger_invoked")
    /\ \E env \in LogEnvs :
       \E ts \in (IF BuildsRow(env) THEN 0..MaxClock ELSE {0}) :
         LET r == log_interaction(env, LogRow(ts, session_id, user_input,
                                              assistant_reply, duration_ms,
                                              user_agent))
         IN  /\ st_errors' = r.errors
             /\ appends' = appends + r.attempts
             /\ row' = r.rows
             /\ IF r.raised
                THEN uncaught' = "Exception" /\ pc' = "Aborted"
                ELSE UNCHANGED uncaught /\ pc' = "Render"
    /\ UNCHANGED <<session, locals, sources, hist0, response, posts,
                   first_context>>

\* The script run is over: main's locals and what the run showed are gone.
EndRun ==
    /\ pc' = "Idle"
    /\ base_prompt' = <<>> /\ knowledge' = <<>> /\ cv_text' = <<>>
    /\ user_input' = <<>> /\ start_time' = 0 /\ messages' = <<>>
    /\ assistant_reply' = Unbound /\ duration_ms' = 0 /\ user_agent' = ""
    /\ uncaught' = "" /\ st_errors' = <<>> /\ response' = 0
    /\ posts' = 0 /\ appends' = 0 /\ row' = <<>> /\ hist0' = <<>>
    /\ handed' = <<>> /\ events' = <<>>
    /\ sources' = <<0, 0, 0>>
    /\ UNCHANGED <<session, first_context>>

\* for msg in st.session_state.chat_history: st.markdown(...)
Render ==
    /\ pc = "Render"
    /\ EndRun

\* An exception left main(): Streamlit shows it and the run is over.
Crash ==
    /\ pc = "Aborted"
    /\ EndRun

\* The session with the endpoint showing the outcomes of CoreOutcomes.
Next ==
    \/ SessionInit
    \/ LoadContext
    \/ ReadInput(MaxExchanges)
    \/ Assemble
    \/ Complete(CoreOutcomes)
    \/ StopTimer
    \/ AppendUser
    \/ AppendAssistant
    \/ Log
    \/ Render
    \/ Crash

Spec == Init /\ [][Next]_vars

\* The steps of a script run once Streamlit started it. The interpreter runs
\* main() statement by statement; requests.post has timeout=60, and the
\* spreadsheet calls are taken to return or fail.
RunSteps ==
    \/ LoadContext
    \/ ReadInput(MaxExchanges)
    \/ Assemble
    \/ Complete(CoreOutcomes)
    \/ StopTimer
    \/ AppendUser
    \/ AppendAssistant
    \/ Log
    \/ Render
    \/ Crash

\* Spec with a started run always going on to its next statement.
SpecLive == Spec /\ WF_vars(RunSteps)

\* A shorter session with the endpoint showing every outcome of HttpOutcomes.
NextGateway ==
    \/ SessionInit
    \/ LoadContext
    \/ ReadInput(MaxGatewayExchanges)
    \/ Assemble
    \/ Complete(AllOutcomes)
    \/ StopTimer
    \/ AppendUser
    \/ AppendAssistant
    \/ Log
    \/ Render
    \/ Crash

SpecGateway == Init /\ [][NextGateway]_vars

\* ======================================================== the properties

\* An exchange is a run of main() whose input was non-empty.
InExchange ==
    pc \in {"Assembling", "AwaitingCompletion", "Recording", "AppendUser",
            "AppendAssistant", "Logging"}

\* The endpoint call of this run is over.
Completed == response # 0

\* call_llm_api raised in this run.
CompletionFailed == Completed /\ call_llm_api(HttpOutcomes[response]).raised

\* Both turns of this run's exchange are in the history.
Recorded == Completed /\ pc \in {"Logging", "Render", "Aborted"}

\* A text that begins with "Error".
BeginsWithError(c) ==
    c.type = "str" /\ c.text # <<>> /\ Head(c.text) = "Error consultando el modelo: "

\* The history a recorded exchange leaves: what the run found, then the input
\* as a user turn, then the reply as an assistant turn.
GrewByThePair ==
    /\ Len(chat_history) = Len(hist0) + 2
    /\ SubSeq(chat_history, 1, Len(hist0)) = hist0
    /\ chat_history[Len(hist0) + 1] = [role |-> "user", content |-> PyStr(user_input)]
    /\ chat_history[Len(hist0) + 2] = [role |-> "assistant", content |-> assistant_reply]

\* The exchange before this run's ended with an error description.
AfterFailedTurn ==
    /\ Len(hist0) >= 2
    /\ hist0[Len(hist0)].role = "assistant"
    /\ BeginsWithError(hist0[Len(hist0)].content)

\* C1: when call_llm_api raises, the history gains exactly the user turn and
\* an assistant turn whose content is an error description beginning with
\* "Error"; and an exchange that follows a failed one is recorded as any other:
\* it sends the whole history, the failed pair included, and adds its own pair.
C1_FailedTurnRecorded ==
    /\ (Recorded /\ CompletionFailed) =>
         /\ GrewByThePair
         /\ BeginsWithError(chat_history[Len(hist0) + 2].content)
    /\ (Recorded /\ AfterFailedTurn) =>
         /\ GrewByThePair
         /\ Len(messages) = Len(hist0) + 2
         /\ SubSeq(messages, 2, Len(hist0) + 1) = hist0

\* A good reply recorded right after a failed exchange.
C1_Witness ==
    /\ pc = "Render"
    /\ AfterFailedTurn
    /\ ~CompletionFailed
    /\ Len(chat_history) = 4
    /\ chat_history[4].content = PyStr(ReplyText)

\* C2: whatever the logger runs into, no exception leaves log_interaction and
\* the history is the one a successful logging leaves: the pair of the
\* exchange added to what the run found.
C2_LoggerNeverBlocks ==
    (Completed /\ pc \in {"Render", "Aborted"}) =>
        /\ pc = "Render"
        /\ uncaught = ""
        /\ GrewByThePair

\* The row append failed and the exchange is complete.
C2_Witness ==
    /\ pc = "Render"
    /\ appends = 1 /\ row = <<>> /\ st_errors # <<>>
    /\ GrewByThePair

\* The turns come in pairs: a user turn, then an assistant turn.
Paired(h) ==
    /\ Len(h) % 2 = 0
    /\ \A i \in 1..Len(h) :
         h[i].role = IF i % 2 = 1 THEN "user" ELSE "assistant"

\* C3: between runs the history has even length, user turns at the odd
\* positions, each followed by an assistant turn.
C3_PairedAtRest == pc = "Idle" => Paired(chat_history)

\* At rest after a failed exchange and a second one.
C3_Witness ==
    /\ pc = "Idle"
    /\ Len(chat_history) = 4
    /\ BeginsWithError(chat_history[2].content)

\* sub occurs in text from position i on.
OccursAt(text, sub, i) ==
    /\ i >= 1 /\ i + Len(sub) - 1 <= Len(text)
    /\ SubSeq(text, i, i + Len(sub) - 1) = sub

\* The system content holds the prompt first, then the serialized knowledge,
\* then the reference text, and ends with the closing instruction.
InContextOrder(text) ==
    /\ OccursAt(text, base_prompt, 1)
    /\ \E i \in (Len(base_prompt) + 1)..Len(text) :
         /\ OccursAt(text, json_dumps(knowledge), i)
         /\ \E j \in (i + Len(json_dumps(knowledge)))..Len(text) :
              /\ OccursAt(text, cv_text, j)
              /\ j + Len(cv_text) <= Len(text)
    /\ text[Len(text)] =
         "Usa esta informacion para responder de manera precisa, clara y profesional."

\* C4: the messages sent are one system message with the context in its
\* order, then the history in its order, then the input as a user message:
\* len(history) + 2 messages.
C4_MessageSequence ==
    pc \in {"AwaitingCompletion", "Recording"} =>
        /\ Len(messages) = Len(chat_history) + 2
        /\ messages[1].role = "system"
        /\ messages[1].content.type = "str"
        /\ InContextOrder(messages[1].content.text)
        /\ \A i \in 1..Len(chat_history) : messages[i + 1] = chat_history[i]
        /\ messages[Len(messages)] = [role |-> "user", content |-> PyStr(user_input)]

\* Messages assembled over a history of one exchange, with a reference text.
C4_Witness ==
    /\ pc = "AwaitingCompletion"
    /\ Len(chat_history) = 2
    /\ cv_text # <<>>
    /\ Len(messages) = 4

\* Only whitespace, or nothing at all.
IsBlank(s) == \A i \in 1..Len(s) : IsSpace(s[i])

\* C5: an empty or whitespace-only input is a no-op: nothing is assembled,
\* nothing is sent, no turn is appended and nothing is logged.
C5_BlankInputIsNoOp ==
    (pc \notin {"Idle", "Loading", "Input", "Aborted"} /\ IsBlank(user_input)) =>
        /\ pc = "Render"
        /\ messages = <<>>
        /\ posts = 0
        /\ chat_history = hist0
        /\ appends = 0 /\ row = <<>>

\* C6: the context every exchange of a session uses is the one loaded for
\* the session's first exchange.
C6_ContextLoadedOnce ==
    (InExchange /\ first_context # <<>>) => Context = first_context

\* v is an object with key k.
HasField(v, k) == v.t = "dict" /\ \E i \in 1..Len(v.keys) : v.keys[i] = k
Field(v, k) == v.vals[CHOOSE i \in 1..Len(v.keys) : v.keys[i] = k]

FirstChoice(h) == Field(h.body, "choices").vals[1]
FirstContent(h) == Field(Field(FirstChoice(h), "message"), "content")

\* A 2xx response whose JSON body has a first choice with a message whose
\* content is a string.
WellFormed(h) ==
    /\ h.kind = "response"
    /\ 200 <= h.status /\ h.status < 300
    /\ h.is_json
    /\ HasField(h.body, "choices")
    /\ Field(h.body, "choices").t = "list"
    /\ Len(Field(h.body, "choices").vals) > 0
    /\ HasField(FirstChoice(h), "message")
    /\ HasField(Field(FirstChoice(h), "message"), "content")
    /\ FirstContent(h).t = "str"

\* C7: anything but a well-formed 2xx response makes call_llm_api raise, so
\* the reply of the exchange is the error description; and a value it
\* returns is the text content of the first choice.
C7_FailuresSurface ==
    Completed =>
        LET h == HttpOutcomes[response] IN
        /\ ~WellFormed(h) =>
             (call_llm_api(h).raised /\ BeginsWithError(assistant_reply))
        /\ ~call_llm_api(h).raised =>
             (WellFormed(h) /\ assistant_reply = PyStr(FirstContent(h).text))

IsPrefix(a, b) == Len(a) <= Len(b) /\ SubSeq(b, 1, Len(a)) = a

\* C8: every step leaves the history it found as a prefix of the history it
\* leaves: no turn is ever changed, moved or removed.
C8_AppendOnly == [][IsPrefix(chat_history, chat_history')]_vars

\* A second exchange recorded behind a first one whose reply was null.
C8_Witness ==
    /\ pc = "Logging"
    /\ Len(chat_history) = 4
    /\ chat_history[2].content = PyNone
    /\ SubSeq(chat_history, 1, 2) = hist0

\* C9: a run sends one POST per exchange and calls append_row at most once,
\* whether they succeed or fail; a row the sheet takes is the row of the
\* exchange of this run, never one left over from an earlier run.
C9_NoRetries ==
    /\ posts <= 1 /\ appends <= 1 /\ Len(row) <= 1
    /\ pc \in {"Idle", "Loading", "Input", "Assembling", "AwaitingCompletion"} =>
         (posts = 0 /\ appends = 0)
    /\ pc \in {"Recording", "AppendUser", "AppendAssistant", "Logging"} =>
         (posts = 1 /\ appends = 0)
    /\ (pc = "Render" /\ Truthy(user_input)) => posts = 1
    /\ (pc = "Render" /\ ~Truthy(user_input)) => (posts = 0 /\ appends = 0)
    /\ row # <<>> =>
         /\ pc = "Render" /\ appends = 1
         /\ row[1][3] = user_input /\ row[1][4] = assistant_reply

\* The second exchange of a session ends with a failed completion and a
\* failed row append, each tried once.
C9_Witness ==
    /\ pc = "Render"
    /\ Len(hist0) = 2
    /\ CompletionFailed
    /\ posts = 1 /\ appends = 1 /\ row = <<>>

\* This run found prompt.txt or knowledge.json unreadable.
Unreadable ==
    /\ sources # <<0, 0, 0>>
    /\ \/ ~PromptFiles[sources[1]].exists
       \/ ~KnowledgeFiles[sources[2]].exists
       \/ ~KnowledgeFiles[sources[2]].valid

\* C10: a run that cannot read the prompt or the knowledge ends with the
\* loader's exception: nothing is assembled or sent, no turn is appended and
\* nothing is logged.
C10_LoadFailureIsFatal ==
    Unreadable =>
        /\ pc = "Aborted" /\ uncaught # ""
        /\ messages = <<>>
        /\ posts = 0 /\ response = 0
        /\ chat_history = hist0
        /\ appends = 0 /\ row = <<>>

\* In a session with one exchange, a run finds the prompt and then a
\* knowledge.json that is not JSON.
C10_Witness ==
    /\ pc = "Aborted"
    /\ sources # <<0, 0, 0>>
    /\ PromptFiles[sources[1]].exists
    /\ KnowledgeFiles[sources[2]].exists /\ ~KnowledgeFiles[sources[2]].valid
    /\ base_prompt # <<>>
    /\ Len(chat_history) = 2

\* The run has come to its end after an exchange.
ExchangeDone == pc = "Render" /\ Truthy(user_input)

\* C11: an exchange hands the logger one record, whether the completion
\* succeeded or failed; its input and reply are the contents of the two turns
\* the exchange appended (the error description after a failure); the row is
\* timestamp, session id, user input, assistant reply, duration, client
\* identifier, in that order.
C11_OneRecordPerExchange ==
    /\ Len(handed) <= 1
    /\ pc \notin {"Render", "Aborted"} => handed = <<>>
    /\ (pc = "Render" /\ ~Truthy(user_input)) => handed = <<>>
    /\ ExchangeDone =>
         /\ Len(handed) = 1
         /\ Len(chat_history) = Len(hist0) + 2
         /\ chat_history[Len(hist0) + 1].role = "user"
         /\ chat_history[Len(hist0) + 1].content = PyStr(handed[1][1])
         /\ chat_history[Len(hist0) + 2].role = "assistant"
         /\ chat_history[Len(hist0) + 2].content = handed[1][2]
         /\ CompletionFailed => BeginsWithError(handed[1][2])
    /\ row # <<>> =>
         /\ Len(handed) = 1
         /\ Len(row[1]) = 6
         /\ row[1][1] \in {<<"isoformat", t>> : t \in 0..MaxClock}
         /\ row[1][2] = session_id
         /\ row[1][3] = handed[1][1]
         /\ row[1][4] = handed[1][2]
         /\ row[1][5] = handed[1][3] /\ row[1][5] = duration_ms
         /\ row[1][6] = handed[1][4] /\ row[1][6] = "streamlit-client"

\* The sheet took the row of an exchange whose completion failed.
C11_Witness ==
    /\ ExchangeDone
    /\ CompletionFailed
    /\ row # <<>>
    /\ BeginsWithError(row[1][4])
    /\ row[1][3] = <<"h", "i">>

\* C12: the session id is drawn when the session state does not hold one
\* yet, and no later step changes or drops it; a row the sheet takes carries it.
C12_SessionIdStable ==
    [][ /\ ("session_id" \notin ss_keys /\ "session_id" \in ss_keys') =>
             session_id' \in UUIDs
        /\ "session_id" \in ss_keys =>
             ("session_id" \in ss_keys' /\ session_id' = session_id)
        /\ row' # <<>> => row'[1][2] = session_id ]_vars

\* The second exchange of a session, after a failed first one, is logged
\* under the session's id.
C12_Witness ==
    /\ ExchangeDone
    /\ AfterFailedTurn
    /\ row # <<>>
    /\ row[1][2] = session_id /\ session_id = "uuid-b"

\* This run read the prompt and the knowledge and found no CV.pdf.
CvAbsent ==
    /\ sources # <<0, 0, 0>>
    /\ ~CvFiles[sources[3]].exists
    /\ ~Unreadable

\* C14: without CV.pdf the reference text is empty and the run goes on as
\* any other: the messages are assembled (nothing between the CV heading and
\* the closing instruction), one POST is sent and the pair is appended.
C14_AbsentCvIsEmpty ==
    CvAbsent =>
        /\ pc # "Aborted" /\ uncaught = ""
        /\ cv_text = <<>>
        /\ pc \in {"AwaitingCompletion", "Recording"} =>
             /\ Len(messages) = Len(hist0) + 2
             /\ LET text == messages[1].content.text IN
                SubSeq(text, Len(text) - 2, Len(text)) =
                  <<"Extracto de CV:\n", "\n\n", ClosingInstruction>>
        /\ ExchangeDone => (posts = 1 /\ GrewByThePair)

\* An exchange with a good reply in a run that found no CV.pdf.
C14_Witness ==
    /\ ExchangeDone
    /\ CvAbsent
    /\ assistant_reply = PyStr(ReplyText)
    /\ Len(chat_history) = 2

\* The statements of an exchange, in the order of main().
StepOrder ==
    <<"timer_started", "assembled", "completed", "timer_stopped",
      "user_appended", "assistant_appended", "logger_invoked">>

\* step is among the statements this run has executed.
Done(step) == \E i \in 1..Len(events) : events[i] = step

\* C15: the statements of an exchange run in the order completion, timer stop,
\* user append, assistant append, logger; so when the logger is about to run,
\* and after it ran whether or not it managed to add the row, the history
\* holds both turns of the exchange.
C15_StepOrder ==
    /\ Len(events) <= Len(StepOrder)
    /\ events = SubSeq(StepOrder, 1, Len(events))
    /\ Done("timer_stopped") => Completed
    /\ Done("user_appended") =>
         /\ Len(chat_history) >= Len(hist0) + 1
         /\ chat_history[Len(hist0) + 1] = [role |-> "user", content |-> PyStr(user_input)]
    /\ Done("assistant_appended") => GrewByThePair
    /\ pc = "Logging" => (events = SubSeq(StepOrder, 1, 6) /\ GrewByThePair)
    /\ handed # <<>> => (events = StepOrder /\ GrewByThePair)

\* The logger ran after a failed completion and could not add the row; both
\* turns are in the history.
C15_Witness ==
    /\ events = StepOrder
    /\ CompletionFailed
    /\ appends = 1 /\ row = <<>> /\ st_errors # <<>>
    /\ Len(chat_history) = Len(hist0) + 2

\* The state of the turn's state machine main() is in.
Stage ==
    CASE pc = "Assembling" -> "Assembling"
      [] pc = "AwaitingCompletion" -> "AwaitingCompletion"
      [] pc \in {"Recording", "AppendUser", "AppendAssistant", "Logging"} -> "Recording"
      [] pc = "Aborted" -> "Aborted"
      [] OTHER -> "Idle"

\* C16: an exchange that left Idle on a non-empty input moves only from
\* Assembling to AwaitingCompletion to Recording and back to Idle, it leaves
\* Recording with the history exactly the pair longer and no exception, and it
\* does get back to Idle, whether the completion and the logging succeed or
\* fail.
C16_ExchangeReturnsToIdle ==
    /\ [][ /\ Stage' # Stage =>
                (\/ <<Stage, Stage'>> \in {<<"Idle", "Assembling">>,
                                            <<"Assembling", "AwaitingCompletion">>,
                                            <<"AwaitingCompletion", "Recording">>,
                                            <<"Recording", "Idle">>}
                 \/ (Stage = "Idle" /\ Stage' = "Aborted" /\ ~Completed')
                 \/ (Stage = "Aborted" /\ Stage' = "Idle" /\ ~Completed))
           /\ (Stage = "Idle" /\ Stage' = "Assembling") =>
                (Truthy(user_input') /\ hist0' = chat_history)
           /\ (Stage = "Recording" /\ Stage' = "Idle") =>
                (uncaught' = "" /\ GrewByThePair' /\ events' = StepOrder)
           /\ (pc = "Render" /\ pc' = "Idle") => chat_history' = chat_history
         ]_vars
    /\ (Stage = "Assembling") ~> (pc = "Idle")

\* The second exchange of a session is complete; its completion failed and so
\* did its logging.
C16_Witness ==
    /\ ExchangeDone
    /\ CompletionFailed
    /\ st_errors # <<>>
    /\ Len(hist0) = 2 /\ Len(chat_history) = 4

\* C17: the duration handed to the logger, and written in the fifth column of
\* the row, is an integer greater than or equal to 0, whatever the two
\* readings of time.time() were.
C17_DurationNonNegative ==
    /\ \A i \in 1..Len(handed) : handed[i][3] \in Int /\ handed[i][3] >= 0
    /\ row # <<>> => (row[1][5] \in Int /\ row[1][5] >= 0)

\* The user turn of this run's input occurs n times in what the run added to
\* the history.
UserTurnsAdded ==
    Cardinality({i \in (Len(hist0) + 1)..Len(chat_history) :
                   chat_history[i].role = "user"})

\* C18: from the start of a run until the timer is stopped the history is the
\* one the run found, though the assembled list ends with the new user
\* message; assembling and calling the endpoint do not change it; and the
\* exchange adds the user turn once.
C18_AssemblyLeavesHistory ==
    /\ [][(pc \in {"Assembling", "AwaitingCompletion", "Recording"}) =>
            chat_history' = chat_history]_vars
    /\ [](pc \in {"Loading", "Input", "Assembling", "AwaitingCompletion",
                  "Recording", "AppendUser"} => chat_history = hist0)
    /\ [](pc \in {"AwaitingCompletion", "Recording"} =>
            /\ Len(messages) = Len(hist0) + 2
            /\ messages[Len(messages)] = Msg("user", PyStr(user_input)))
    /\ [](ExchangeDone => (UserTurnsAdded = 1 /\ GrewByThePair))

\* The endpoint answered the second exchange; the assembled list holds the
\* history and the new user message, the history is still the first pair.
C18_Witness ==
    /\ pc = "Recording"
    /\ Len(hist0) = 2
    /\ chat_history = hist0
    /\ Len(messages) = 4

====
